---- MODULE Spec2Model ----
(***************************************************************************)
(* btc_dashboard.py: one run of main(), from the live-metric fetches to    *)
(* the printed trading advice.  Each step of main is an action; `pc` is    *)
(* the position in main, `exc` the exception that ended the run (if any).  *)
(* The providers (yfinance, alternative.me, CoinGecko) and the pandas_ta   *)
(* indicator library are the environment: their answers are inputs.        *)
(***************************************************************************)
EXTENDS Integers, Sequences, FiniteSets, TLC

VARIABLES pc, exc, errors, price_metric, fg_value, fg_text, fg_metric,
          social_data, social_view, timeframe, hist_in, hist, ta, data,
          chart, rsi, rsi_status, macd, signal, macd_status,
          bb_percent, bb_status, trend, advice, written

vars == <<pc, exc, errors, price_metric, fg_value, fg_text, fg_metric,
          social_data, social_view, timeframe, hist_in, hist, ta, data,
          chart, rsi, rsi_status, macd, signal, macd_status,
          bb_percent, bb_status, trend, advice, written>>

(***************************************************************************)
(* Bounds of the model.                                                    *)
(***************************************************************************)
\* macd - signal of the latest row ranges over -MaxGap..MaxGap
MaxGap == 2
\* width bbUpper - bbLower of the latest row is 0 or MaxWidth
MaxWidth == 5

(***************************************************************************)
(* Values.  A float64 is a rational n/d (d > 0, lowest terms), NaN, +inf   *)
(* or -inf; Python None is its own value.                                  *)
(***************************************************************************)
None == [k |-> "none"]
NaN  == [k |-> "nan"]
PInf == [k |-> "inf"]
NInf == [k |-> "ninf"]

Abs(i) == IF i < 0 THEN -i ELSE i

RECURSIVE GCD(_, _)
GCD(a, b) == IF b = 0 THEN a ELSE GCD(b, a % b)

Fin(n, d) ==
  LET g == GCD(Abs(n), d)
  IN  [k |-> "fin", n |-> n \div g, d |-> d \div g]

Num(i) == Fin(i, 1)

IsFin(x) == x.k = "fin"

\* float64 a - b
FSub(a, b) ==
  IF a.k = "nan" \/ b.k = "nan" THEN NaN
  ELSE IF IsFin(a) /\ IsFin(b) THEN Fin(a.n * b.d - b.n * a.d, a.d * b.d)
  ELSE IF IsFin(b) THEN a
  ELSE IF IsFin(a) THEN (IF b.k = "inf" THEN NInf ELSE PInf)
  ELSE IF a.k = b.k THEN NaN ELSE a

\* float64 a + b
FAdd(a, b) ==
  IF a.k = "nan" \/ b.k = "nan" THEN NaN
  ELSE IF IsFin(a) /\ IsFin(b) THEN Fin(a.n * b.d + b.n * a.d, a.d * b.d)
  ELSE IF IsFin(b) THEN a
  ELSE IF IsFin(a) THEN b
  ELSE IF a.k = b.k THEN a ELSE NaN

Sign(x) == IF x.k = "inf" THEN 1 ELSE IF x.k = "ninf" THEN -1
           ELSE IF x.n > 0 THEN 1 ELSE IF x.n < 0 THEN -1 ELSE 0

\* numpy.float64 a / b: division by zero yields inf, -inf or nan (with a
\* RuntimeWarning), it never raises
FDiv(a, b) ==
  IF a.k = "nan" \/ b.k = "nan" THEN NaN
  ELSE IF IsFin(a) /\ IsFin(b) THEN
         IF b.n = 0
         THEN (IF a.n > 0 THEN PInf ELSE IF a.n < 0 THEN NInf ELSE NaN)
         ELSE IF b.n > 0 THEN Fin(a.n * b.d, a.d * b.n)
         ELSE Fin(-(a.n * b.d), a.d * (-b.n))
  ELSE IF IsFin(b) THEN
         (IF Sign(a) * (IF b.n < 0 THEN -1 ELSE 1) > 0 THEN PInf ELSE NInf)
  ELSE IF IsFin(a) THEN Num(0)
  ELSE NaN

\* float64 a > b: every comparison with NaN is False
FGt(a, b) ==
  IF a.k = "nan" \/ b.k = "nan" THEN FALSE
  ELSE IF IsFin(a) /\ IsFin(b) THEN a.n * b.d > b.n * a.d
  ELSE IF a.k = "inf" THEN b.k # "inf"
  ELSE IF b.k = "ninf" THEN a.k # "ninf"
  ELSE FALSE

\* float64 a < b
FLt(a, b) == FGt(b, a)


PyInt(i) == [k |-> "int", v |-> i]

\* Python truthiness of None / int / dict values
Truthy(x) == IF x.k = "none" THEN FALSE
             ELSE IF x.k = "int" THEN x.v # 0
             ELSE TRUE

\* a call's outcome: a return value, or an exception that propagates
Return(v) == [exc |-> "none", ret |-> v]
Raise(e)  == [exc |-> e, ret |-> None]

(***************************************************************************)
(* Provider answers (inputs).                                              *)
(***************************************************************************)
\* yfinance 1d history: an exception, an empty frame, or first/last closes
LiveResponses ==
  {[k |-> "error"], [k |-> "empty"]} \cup
  {[k |-> "ok", first |-> Num(f), last |-> Num(100)] : f \in {99, 100}}

\* alternative.me /fng/: request failure, JSON without 'data', or a row
\* whose 'value' is a string
FngResponses ==
  {[k |-> "error"], [k |-> "nodata"],
   [k |-> "ok", value |-> <<"0">>, value_classification |-> "Extreme Fear"],
   [k |-> "ok", value |-> <<"5", "0">>, value_classification |-> "Neutral"],
   [k |-> "ok", value |-> <<"1", "0", "0">>,
    value_classification |-> "Extreme Greed"],
   [k |-> "ok", value |-> <<"n", "a">>, value_classification |-> "Unknown"]}

\* CoinGecko + alternative.me social: request failure, a missing key, or
\* the four fields (a JSON null is None)
SocialResponses ==
  {[k |-> "error"], [k |-> "missingkey"]} \cup
  {[k |-> "ok", twitter_followers |-> t, reddit_subscribers |-> PyInt(2),
    active_addresses |-> PyInt(3), social_score |-> PyInt(4)] :
     t \in {PyInt(1), None}}

Timeframes == {"15m", "1h", "4h", "1d", "1wk"}

timeframe_map ==
  [t \in Timeframes |->
     CASE t = "15m" -> 3 [] t = "1h" -> 7 [] t = "4h" -> 14
       [] t = "1d" -> 30 [] t = "1wk" -> 52]

\* bars per day of each interval (BTC-USD trades around the clock)
BarsIn(interval, days) ==
  CASE interval = "15m" -> 96 * days
    [] interval = "1h"  -> 24 * days
    [] interval = "4h"  -> 6 * days
    [] interval = "1d"  -> days
    [] interval = "1wk" -> (days + 6) \div 7

\* yfinance history(interval, period): an exception or a frame
HistResponses(interval, days) ==
  {[k |-> "error"],
   [k |-> "ok", rows |-> BarsIn(interval, days), close |-> Num(100)]}

(***************************************************************************)
(* Helper functions of the source.                                         *)
(***************************************************************************)
\* get_live_price: no try/except; data.iloc[-1] of an empty frame raises
get_live_price(resp) ==
  IF resp.k = "error" THEN Raise("FetchError")
  ELSE IF resp.k = "empty" THEN Raise("IndexError")
  ELSE Return(<<resp.last, FSub(resp.last, resp.first)>>)

DigitVal(c) ==
  CASE c = "0" -> 0 [] c = "1" -> 1 [] c = "2" -> 2 [] c = "3" -> 3
    [] c = "4" -> 4 [] c = "5" -> 5 [] c = "6" -> 6 [] c = "7" -> 7
    [] c = "8" -> 8 [] c = "9" -> 9 [] OTHER -> -1

RECURSIVE ParseDigits(_, _)
ParseDigits(s, acc) ==
  IF s = <<>> THEN acc
  ELSE ParseDigits(Tail(s), 10 * acc + DigitVal(Head(s)))

\* int(str): the number, or None standing for ValueError
ParseInt(s) ==
  IF s # <<>> /\ \A i \in 1..Len(s) : DigitVal(s[i]) >= 0
  THEN PyInt(ParseDigits(s, 0))
  ELSE None

\* get_fear_greed: every exception is caught, reported with st.error and
\* turned into (None, "N/A")
get_fear_greed(resp) ==
  IF resp.k = "ok" /\ ParseInt(resp.value) # None
  THEN [ret |-> <<ParseInt(resp.value), resp.value_classification>>,
        err |-> <<>>]
  ELSE [ret |-> <<None, "N/A">>, err |-> <<"Fear & Greed Error">>]

\* get_social_metrics: every exception is caught and turned into None
get_social_metrics(resp) ==
  IF resp.k = "ok"
  THEN [ret |-> [k |-> "dict",
                 twitter_followers |-> resp.twitter_followers,
                 reddit_subscribers |-> resp.reddit_subscribers,
                 active_addresses |-> resp.active_addresses,
                 social_score |-> resp.social_score],
        err |-> <<>>]
  ELSE [ret |-> None, err |-> <<"Social Metrics Error">>]

\* a DataFrame: its number of rows, its columns and the values of its last
\* row (what .iloc[-1] reads)
Frame(rows, cols, last) ==
  [k |-> "frame", rows |-> rows, cols |-> cols, last |-> last]

\* get_historical_data: no try/except
get_historical_data(resp) ==
  IF resp.k = "error" THEN Raise("FetchError")
  ELSE Return(Frame(resp.rows, {"Close"}, ("Close" :> resp.close)))


(***************************************************************************)
(* pandas_ta (the indicator library; its answers are inputs).              *)
(***************************************************************************)
\* df.ta.rsi(length=14)
RSI_LENGTH == 14
\* df.ta.sma(length=20), df.ta.bbands(length=20)
SMA_LENGTH == 20
\* df.ta.macd(): slow period and signal period of MACD_12_26_9
MACD_SLOW == 26
MACD_SIGNAL == 9

RsiSamples == {29, 30, 50, 70, 71}
SignalSamples == {-3, 3}

\* what one df.ta.<indicator>(append=True) call appends: None when the
\* library appends nothing, else the last-row value of each new column.
\* With fewer rows than the lookback the value is undefined: the column is
\* missing or its last value is NaN.
RsiResults(df) ==
  IF df.rows > RSI_LENGTH
  THEN {("RSI_14" :> Num(r)) : r \in RsiSamples}
  ELSE {None, ("RSI_14" :> NaN)}

MacdResults(df) ==
  IF df.rows >= MACD_SLOW + MACD_SIGNAL - 1
  THEN {("MACD_12_26_9" :> Num(s + g) @@ "MACDs_12_26_9" :> Num(s)) :
          s \in SignalSamples, g \in (-MaxGap)..MaxGap}
  ELSE IF df.rows >= MACD_SLOW
  THEN {None} \cup
       {("MACD_12_26_9" :> Num(g) @@ "MACDs_12_26_9" :> NaN) :
          g \in (-MaxGap)..MaxGap}
  ELSE {None, ("MACD_12_26_9" :> NaN @@ "MACDs_12_26_9" :> NaN)}

\* the bands of the last row: bbUpper - bbLower is 0 (the trailing closes
\* are all equal, so close = bbLower = bbUpper) or MaxWidth, with the close
\* from one below the lower band to one above the upper band
Bands(df) ==
  LET c == df.last["Close"].n
  IN  {[lower |-> c, upper |-> c]} \cup
      {[lower |-> c - off, upper |-> c - off + MaxWidth] :
         off \in (-1)..(MaxWidth + 1)}

\* SMA_20 is the middle of the bands; both are undefined below 20 rows
SmaBbandsResults(df) ==
  IF df.rows >= SMA_LENGTH
  THEN {[sma |-> ("SMA_20" :> Fin(b.lower + b.upper, 2)),
         bbands |-> ("BBL_20_2.0" :> Num(b.lower) @@
                     "BBU_20_2.0" :> Num(b.upper))] : b \in Bands(df)}
  ELSE {[sma |-> x, bbands |-> y] :
          x \in {None, ("SMA_20" :> NaN)},
          y \in {None, ("BBL_20_2.0" :> NaN @@ "BBU_20_2.0" :> NaN)}}

TaResults(df) ==
  {[rsi |-> r, macd |-> m, sma |-> sb.sma, bbands |-> sb.bbands] :
     r \in RsiResults(df), m \in MacdResults(df), sb \in SmaBbandsResults(df)}

\* append=True: the new columns are written into df itself
AppendCols(df, res) ==
  IF res = None THEN df
  ELSE [df EXCEPT !.cols = @ \cup DOMAIN res, !.last = res @@ @]

\* faulty variant: the indicators go into a copy, the argument is left alone
calculate_technicals_copy(df, lib) ==
  [df |-> df,
   ret |-> AppendCols(AppendCols(AppendCols(AppendCols(df,
             lib.rsi), lib.macd), lib.sma), lib.bbands)]

\* calculate_technicals(df): the four indicators are appended to df in
\* place, and df itself is returned.  `df` is the argument object after the
\* call, `ret` the returned value.
calculate_technicals(df, lib) ==
  LET out == AppendCols(AppendCols(AppendCols(AppendCols(df,
                 lib.rsi), lib.macd), lib.sma), lib.bbands)
  IN  [df |-> out, ret |-> out]


(***************************************************************************)
(* The expressions of main.                                                *)
(***************************************************************************)
\* f"{fg_value or 'N/A'} ({fg_text})"
FearGreedLabel(value, text) ==
  [shown |-> IF Truthy(value) THEN value ELSE [k |-> "str", s |-> "N/A"],
   text |-> text]

\* faulty variant: the boundaries 70 and 30 count as Overbought and Oversold
RsiStatus_Inclusive(r) ==
  IF FGt(r, Num(70)) \/ r = Num(70) THEN "Overbought"
  ELSE IF FLt(r, Num(30)) \/ r = Num(30) THEN "Oversold"
  ELSE "Neutral"

\* "Overbought" if rsi > 70 else "Oversold" if rsi < 30 else "Neutral"
RsiStatus(r) ==
  IF FGt(r, Num(70)) THEN "Overbought"
  ELSE IF FLt(r, Num(30)) THEN "Oversold"
  ELSE "Neutral"

\* "Bullish" if macd > signal else "Bearish"
MacdStatus(m, sg) == IF FGt(m, sg) THEN "Bullish" ELSE "Bearish"

\* (Close - BBL) / (BBU - BBL) of the last row
BbPercent(close, bbl, bbu) == FDiv(FSub(close, bbl), FSub(bbu, bbl))

\* faulty variant: the boundaries 0.8 and 0.2 count as High and Low Volatility
BbStatus_Inclusive(p) ==
  IF FGt(p, Fin(8, 10)) \/ p = Fin(8, 10) THEN "High Volatility"
  ELSE IF FLt(p, Fin(2, 10)) \/ p = Fin(2, 10) THEN "Low Volatility"
  ELSE "Normal"

\* "High Volatility" if bb_percent > 0.8 else "Low Volatility"
\* if bb_percent < 0.2 else "Normal"
BbStatus(p) ==
  IF FGt(p, Fin(8, 10)) THEN "High Volatility"
  ELSE IF FLt(p, Fin(2, 10)) THEN "Low Volatility"
  ELSE "Normal"

\* "Bullish" if Close > SMA_20 else "Bearish"
Trend(close, sma) == IF FGt(close, sma) THEN "Bullish" ELSE "Bearish"

RSI_PROFITS == "Consider taking profits - RSI indicates overbought condition"
RSI_BUY ==
  "Potential buying opportunity - RSI indicates oversold condition"
MACD_BULL == "Strong bullish momentum - MACD above signal line"
MACD_BEAR == "Bearish momentum building - MACD below signal line"
BB_UPPER == "Price above upper Bollinger Band - possible mean reversion"
BB_LOWER ==
  "Price below lower Bollinger Band - potential bounce opportunity"
FALLBACK == "No strong signals detected - maintain current positions"

\* if rsi > 70: append ... elif rsi < 30: append ...
RsiAdvice(adv, r) ==
  IF FGt(r, Num(70)) THEN Append(adv, RSI_PROFITS)
  ELSE IF FLt(r, Num(30)) THEN Append(adv, RSI_BUY)
  ELSE adv

\* faulty variant: the advice fires on the status threshold, without the margin
MacdAdvice_NoMargin(adv, m, sg) ==
  IF FGt(m, sg) THEN Append(adv, MACD_BULL)
  ELSE IF FLt(m, sg) THEN Append(adv, MACD_BEAR)
  ELSE adv

\* if macd > signal + 1.0: append ... elif macd < signal - 1.0: append ...
MacdAdvice(adv, m, sg) ==
  IF FGt(m, FAdd(sg, Num(1))) THEN Append(adv, MACD_BULL)
  ELSE IF FLt(m, FSub(sg, Num(1))) THEN Append(adv, MACD_BEAR)
  ELSE adv

\* if Close > BBU: append ... elif Close < BBL: append ...
BollingerAdvice(adv, close, bbl, bbu) ==
  IF FGt(close, bbu) THEN Append(adv, BB_UPPER)
  ELSE IF FLt(close, bbl) THEN Append(adv, BB_LOWER)
  ELSE adv

\* faulty variant: the fallback is appended whatever the list holds
FallbackAdvice_Always(adv) == Append(adv, FALLBACK)

\* if not advice: append the fallback
FallbackAdvice(adv) == IF adv = <<>> THEN Append(adv, FALLBACK) ELSE adv

\* faulty variant: the MACD rule is evaluated before the RSI rule
TradingAdvice_MacdFirst(r, m, sg, close, bbl, bbu) ==
  FallbackAdvice(
    BollingerAdvice(RsiAdvice(MacdAdvice(<<>>, m, sg), r), close, bbl, bbu))

\* the advice list of main, from the empty list to the fallback
TradingAdvice(r, m, sg, close, bbl, bbu) ==
  FallbackAdvice(
    BollingerAdvice(MacdAdvice(RsiAdvice(<<>>, r), m, sg), close, bbl, bbu))

(***************************************************************************)
(* main, step by step.                                                     *)
(***************************************************************************)
liveVars == <<price_metric, fg_value, fg_text, fg_metric, social_data,
              social_view>>
histVars == <<timeframe, hist_in, hist, ta, data>>
sigVars  == <<rsi, rsi_status, macd, signal, macd_status, bb_percent,
              bb_status, trend>>
advVars  == <<advice, written>>

Init ==
  /\ pc = "price"
  /\ exc = "none"
  /\ errors = <<>>
  /\ price_metric = None
  /\ fg_value = None
  /\ fg_text = "none"
  /\ fg_metric = None
  /\ social_data = None
  /\ social_view = "none"
  /\ timeframe = "none"
  /\ hist_in = None
  /\ hist = None
  /\ ta = None
  /\ data = None
  /\ chart = "none"
  /\ rsi = None
  /\ rsi_status = "none"
  /\ macd = None
  /\ signal = None
  /\ macd_status = "none"
  /\ bb_percent = None
  /\ bb_status = "none"
  /\ trend = "none"
  /\ advice = <<>>
  /\ written = <<>>

\* an exception leaves main: nothing after it runs
Propagate(e) ==
  /\ pc' = "raised"
  /\ exc' = e

\* col1: price, change = get_live_price(); st.metric("Current Price", ...)
LivePrice ==
  /\ pc = "price"
  /\ \E resp \in LiveResponses :
       LET r == get_live_price(resp)
       IN  IF r.exc # "none"
           THEN /\ Propagate(r.exc)
                /\ UNCHANGED price_metric
           ELSE /\ price_metric' =
                     [price |-> r.ret[1], change |-> r.ret[2],
                      ratio |-> FDiv(r.ret[2], r.ret[1])]
                /\ pc' = "fear_greed"
                /\ UNCHANGED exc
  /\ UNCHANGED <<errors, fg_value, fg_text, fg_metric, social_data,
                 social_view, histVars, chart, sigVars, advVars>>

\* col2: fg_value, fg_text = get_fear_greed(); st.metric(...)
FearGreed ==
  /\ pc = "fear_greed"
  /\ \E resp \in FngResponses :
       LET r == get_fear_greed(resp)
       IN  /\ fg_value' = r.ret[1]
           /\ fg_text' = r.ret[2]
           /\ fg_metric' = FearGreedLabel(r.ret[1], r.ret[2])
           /\ errors' = errors \o r.err
  /\ pc' = "social"
  /\ UNCHANGED <<exc, price_metric, social_data, social_view, histVars,
                 chart, sigVars, advVars>>

\* col3: social_data = get_social_metrics(); the metric box formats three
\* of the fields with ':,', which raises TypeError on None
SocialMetrics ==
  /\ pc = "social"
  /\ \E resp \in SocialResponses :
       LET r == get_social_metrics(resp)
       IN  /\ social_data' = r.ret
           /\ errors' = errors \o r.err
           /\ IF ~Truthy(r.ret)
              THEN /\ social_view' = "warning"
                   /\ pc' = "timeframe"
                   /\ UNCHANGED exc
              ELSE IF \/ r.ret.twitter_followers = None
                      \/ r.ret.reddit_subscribers = None
                      \/ r.ret.active_addresses = None
              THEN /\ Propagate("TypeError")
                   /\ UNCHANGED social_view
              ELSE /\ social_view' = "metric-box"
                   /\ pc' = "timeframe"
                   /\ UNCHANGED exc
  /\ UNCHANGED <<price_metric, fg_value, fg_text, fg_metric, histVars,
                 chart, sigVars, advVars>>

\* timeframe = st.selectbox(...);
\* data = get_historical_data(timeframe, timeframe_map[timeframe])
HistoricalData ==
  /\ pc = "timeframe"
  /\ \E t \in Timeframes :
       \E resp \in HistResponses(t, timeframe_map[t]) :
         LET r == get_historical_data(resp)
         IN  /\ timeframe' = t
             /\ IF r.exc # "none"
                THEN /\ Propagate(r.exc)
                     /\ UNCHANGED hist
                ELSE /\ hist' = r.ret
                     /\ pc' = "technicals"
                     /\ UNCHANGED exc
  /\ UNCHANGED <<errors, liveVars, hist_in, ta, data, chart, sigVars,
                 advVars>>

\* data = calculate_technicals(data).  hist is the object the fetch
\* returned, hist_in its value when the call was made, ta what the library
\* computed from it.
Technicals ==
  /\ pc = "technicals"
  /\ \E lib \in TaResults(hist) :
       LET r == calculate_technicals(hist, lib)
       IN  /\ hist_in' = hist
           /\ ta' = lib
           /\ hist' = r.df
           /\ data' = r.ret
  /\ pc' = "chart"
  /\ UNCHANGED <<exc, errors, liveVars, timeframe, chart, sigVars, advVars>>

Has(df, col) == col \in df.cols

\* the price chart plots Close, SMA_20 and the two bands; data[col] of a
\* missing column raises KeyError
PriceChart ==
  /\ pc = "chart"
  /\ IF /\ Has(data, "Close") /\ Has(data, "SMA_20")
        /\ Has(data, "BBL_20_2.0") /\ Has(data, "BBU_20_2.0")
     THEN /\ chart' = "drawn"
          /\ pc' = "rsi"
          /\ UNCHANGED exc
     ELSE /\ Propagate("KeyError")
          /\ UNCHANGED chart
  /\ UNCHANGED <<errors, liveVars, histVars, sigVars, advVars>>

\* cols[0]: rsi and its status
RsiMetric ==
  /\ pc = "rsi"
  /\ IF Has(data, "RSI_14")
     THEN /\ rsi' = data.last["RSI_14"]
          /\ rsi_status' = RsiStatus(data.last["RSI_14"])
          /\ pc' = "macd"
          /\ UNCHANGED exc
     ELSE /\ Propagate("KeyError")
          /\ UNCHANGED <<rsi, rsi_status>>
  /\ UNCHANGED <<errors, liveVars, histVars, chart, macd, signal,
                 macd_status, bb_percent, bb_status, trend, advVars>>

\* cols[1]: macd, signal and the MACD status
MacdMetric ==
  /\ pc = "macd"
  /\ IF Has(data, "MACD_12_26_9") /\ Has(data, "MACDs_12_26_9")
     THEN /\ macd' = data.last["MACD_12_26_9"]
          /\ signal' = data.last["MACDs_12_26_9"]
          /\ macd_status' = MacdStatus(data.last["MACD_12_26_9"],
                                       data.last["MACDs_12_26_9"])
          /\ pc' = "bollinger"
          /\ UNCHANGED exc
     ELSE /\ Propagate("KeyError")
          /\ UNCHANGED <<macd, signal, macd_status>>
  /\ UNCHANGED <<errors, liveVars, histVars, chart, rsi, rsi_status,
                 bb_percent, bb_status, trend, advVars>>

\* cols[2]: bb_percent and its status; cols[3]: the trend
BollingerTrend ==
  /\ pc = "bollinger"
  /\ bb_percent' = BbPercent(data.last["Close"], data.last["BBL_20_2.0"],
                             data.last["BBU_20_2.0"])
  /\ bb_status' = BbStatus(bb_percent')
  /\ trend' = Trend(data.last["Close"], data.last["SMA_20"])
  /\ pc' = "advice"
  /\ UNCHANGED <<exc, errors, liveVars, histVars, chart, rsi, rsi_status,
                 macd, signal, macd_status, advVars>>

\* the advice list is built and every item written
Advice ==
  /\ pc = "advice"
  /\ advice' = TradingAdvice(rsi, macd, signal, data.last["Close"],
                             data.last["BBL_20_2.0"], data.last["BBU_20_2.0"])
  /\ written' = advice'
  /\ pc' = "done"
  /\ UNCHANGED <<exc, errors, liveVars, histVars, chart, sigVars>>

Next ==
  \/ LivePrice
  \/ FearGreed
  \/ SocialMetrics
  \/ HistoricalData
  \/ Technicals
  \/ PriceChart
  \/ RsiMetric
  \/ MacdMetric
  \/ BollingerTrend
  \/ Advice

Spec == Init /\ [][Next]_vars


(***************************************************************************)
(* Properties.  The comparisons below are stated on the numbers            *)
(* themselves, apart from the float operators of the model.                *)
(***************************************************************************)
Done == pc = "done"
Classified == pc \in {"advice", "done"}

Has_(adv, line) == \E i \in 1..Len(adv) : adv[i] = line

\* x > y and x < y on defined numbers; an undefined number is in no order
More(x, y) == IsFin(x) /\ IsFin(y) /\ x.n * y.d > y.n * x.d
Less(x, y) == More(y, x)
Plus(x, i) == [k |-> "fin", n |-> x.n + i * x.d, d |-> x.d]

LastClose == data.last["Close"]
LastLower == data.last["BBL_20_2.0"]
LastUpper == data.last["BBU_20_2.0"]

RsiFired == More(rsi, Num(70)) \/ Less(rsi, Num(30))
MacdFired ==
  IsFin(signal) /\ (More(macd, Plus(signal, 1)) \/ Less(macd, Plus(signal, -1)))
BollingerFired == More(LastClose, LastUpper) \/ Less(LastClose, LastLower)

\* C1: the advice list of a finished run is never empty; it holds the
\* fallback line exactly when none of the RSI, MACD and Bollinger rules
\* fired, and then the fallback is its only entry
C1_FallbackIffNoRuleFired ==
  Done =>
    /\ advice # <<>>
    /\ Has_(advice, FALLBACK) <=> ~(RsiFired \/ MacdFired \/ BollingerFired)
    /\ Has_(advice, FALLBACK) => advice = <<FALLBACK>>

C1_Witness ==
  /\ Done
  /\ advice = <<FALLBACK>>
  /\ IsFin(rsi) /\ IsFin(signal)

Rank(line) ==
  IF line \in {RSI_PROFITS, RSI_BUY} THEN 1
  ELSE IF line \in {MACD_BULL, MACD_BEAR} THEN 2
  ELSE IF line \in {BB_UPPER, BB_LOWER} THEN 3
  ELSE 4

\* C2: the advice list is in rule order (RSI line, then MACD line, then
\* Bollinger line), holds at most one line of each rule and so at most 3
\* entries, none repeated
C2_AdviceInRuleOrder ==
  Done =>
    /\ Len(advice) <= 3
    /\ \A i \in 1..Len(advice) : \A j \in 1..Len(advice) :
         i < j => Rank(advice[i]) < Rank(advice[j])

C2_Witness ==
  /\ Done
  /\ Len(advice) = 3
  /\ Rank(advice[1]) = 1 /\ Rank(advice[2]) = 2 /\ Rank(advice[3]) = 3

\* C3: the RSI status is Overbought exactly when rsi > 70, Oversold exactly
\* when rsi < 30 and Neutral otherwise (70 and 30 are Neutral), and the RSI
\* advice agrees with it: the profits line iff Overbought, the buying line
\* iff Oversold, no RSI line when Neutral
C3_RsiRule ==
  /\ rsi_status # "none" =>
       /\ rsi_status = "Overbought" <=> More(rsi, Num(70))
       /\ rsi_status = "Oversold" <=> Less(rsi, Num(30))
       /\ rsi_status = "Neutral" <=>
            ~(More(rsi, Num(70)) \/ Less(rsi, Num(30)))
  /\ Done =>
       /\ Has_(advice, RSI_PROFITS) <=> rsi_status = "Overbought"
       /\ Has_(advice, RSI_BUY) <=> rsi_status = "Oversold"
       /\ rsi_status = "Neutral" =>
            ~(Has_(advice, RSI_PROFITS) \/ Has_(advice, RSI_BUY))

C3_Witness ==
  /\ Done
  /\ rsi = Num(70)
  /\ rsi_status = "Neutral"
  /\ ~Has_(advice, RSI_PROFITS)

\* C4: the MACD status is Bullish iff macd > signal and Bearish otherwise,
\* while the MACD advice needs a margin of 1.0: the bullish line iff
\* macd > signal + 1.0, the bearish line iff macd < signal - 1.0, no MACD
\* line in between; a bullish line implies Bullish, a bearish line Bearish
C4_MacdRule ==
  /\ macd_status # "none" =>
       /\ macd_status = "Bullish" <=> More(macd, signal)
       /\ macd_status = "Bearish" <=> ~More(macd, signal)
  /\ Done =>
       /\ Has_(advice, MACD_BULL) <=>
            (IsFin(signal) /\ More(macd, Plus(signal, 1)))
       /\ Has_(advice, MACD_BEAR) <=>
            (IsFin(signal) /\ Less(macd, Plus(signal, -1)))
       /\ Has_(advice, MACD_BULL) => macd_status = "Bullish"
       /\ Has_(advice, MACD_BEAR) => macd_status = "Bearish"

C4_Witness ==
  /\ Done
  /\ IsFin(signal)
  /\ macd = Plus(signal, 1)
  /\ macd_status = "Bullish"
  /\ ~Has_(advice, MACD_BULL)

\* C5: when the latest bbUpper equals the latest bbLower the Bollinger rule
\* is skipped: no Bollinger status, no Bollinger advice line, and no
\* division by zero is evaluated
C5_ZeroVolatilityGuard ==
  (Classified /\ IsFin(LastLower) /\ LastUpper = LastLower) =>
    /\ bb_status = "none"
    /\ bb_percent = None
    /\ ~(Has_(advice, BB_UPPER) \/ Has_(advice, BB_LOWER))

RsiUndefined == ta.rsi = None \/ ta.rsi["RSI_14"] = NaN
MacdUndefined ==
  \/ ta.macd = None
  \/ ta.macd["MACD_12_26_9"] = NaN
  \/ ta.macd["MACDs_12_26_9"] = NaN
BandsUndefined == ta.bbands = None \/ ta.bbands["BBL_20_2.0"] = NaN

\* C6: when the latest value of an indicator is undefined the
\* classification does not throw, and the rule of that indicator produces
\* neither a status nor an advice line
C6_UndefinedNotClassified ==
  ta # None =>
    /\ ~(chart = "drawn" /\ pc = "raised")
    /\ RsiUndefined =>
         /\ rsi_status = "none"
         /\ ~(Has_(advice, RSI_PROFITS) \/ Has_(advice, RSI_BUY))
    /\ MacdUndefined =>
         /\ macd_status = "none"
         /\ ~(Has_(advice, MACD_BULL) \/ Has_(advice, MACD_BEAR))
    /\ BandsUndefined =>
         /\ bb_status = "none"
         /\ ~(Has_(advice, BB_UPPER) \/ Has_(advice, BB_LOWER))

\* C7: no exception of get_live_price, get_fear_greed, get_social_metrics
\* or get_historical_data propagates into main: a failed fetch yields a
\* placeholder and main goes on
C7_NoFetchExceptionPropagates ==
  exc \notin {"FetchError", "IndexError"}

\* C8: with bbUpper > bbLower the Bollinger status is High Volatility iff
\* (close - bbLower) / (bbUpper - bbLower) > 0.8, Low Volatility iff it is
\* < 0.2, else Normal; the advice fires only on a breach (upper line iff
\* close > bbUpper, lower line iff close < bbLower), so an upper line
\* implies High Volatility and a lower line Low Volatility
C8_BollingerRule ==
  (Classified /\ More(LastUpper, LastLower)) =>
    LET c == LastClose.n * LastLower.d - LastLower.n * LastClose.d
        w == LastUpper.n * LastLower.d - LastLower.n * LastUpper.d
        \* c / (dc * dl) over w / (du * dl), both denominators positive
        num == c * LastUpper.d
        den == w * LastClose.d
    IN  /\ bb_status = "High Volatility" <=> 10 * num > 8 * den
        /\ bb_status = "Low Volatility" <=> 10 * num < 2 * den
        /\ bb_status = "Normal" <=> (10 * num >= 2 * den /\ 10 * num <= 8 * den)
        /\ Done =>
             /\ Has_(advice, BB_UPPER) <=> More(LastClose, LastUpper)
             /\ Has_(advice, BB_LOWER) <=> Less(LastClose, LastLower)
             /\ Has_(advice, BB_UPPER) => bb_status = "High Volatility"
             /\ Has_(advice, BB_LOWER) => bb_status = "Low Volatility"

C8_Witness ==
  /\ Done
  /\ More(LastUpper, LastLower)
  /\ LastClose = LastUpper
  /\ bb_status = "High Volatility"
  /\ ~Has_(advice, BB_UPPER)

Appended(lib) ==
  UNION {DOMAIN lib[f] : f \in {g \in DOMAIN lib : lib[g] # None}}

C10_FetchedValueShown ==
  fg_metric # None =>
    /\ fg_value = None => fg_metric.shown = [k |-> "str", s |-> "N/A"]
    /\ fg_value # None => fg_metric.shown = fg_value
    /\ fg_metric.text = fg_text

====
